---- MODULE Spec2Model ----
(***************************************************************************)
(* Model of ruzzle-solver-rs: the prefix trie (src/src/trie.rs), the grid  *)
(* index and container (src/src/board.rs) and the depth-first solver       *)
(* (src/src/main.rs).                                                      *)
(*                                                                         *)
(* A char is a one-letter string, a &str a sequence of chars, Option<T> a  *)
(* sequence of length 0 (None) or 1 (Some), a BoardIndex its `flattened`   *)
(* field, a Board4x4<T> a function on 0..15 (Rust arrays are 0-based).     *)
(***************************************************************************)
EXTENDS Integers, Sequences, FiniteSets, TLC

VARIABLES
    pc,        \* position of the running program
    root,      \* the dictionary trie (TrieNode)
    inserted,  \* the set of words passed to add_word so far
    nbW, nbH,  \* const generics W, H of the BoardIndex under test
    nbIdx,     \* the BoardIndex get_neighbouring is called on
    nbOut,     \* the items its iterator yielded
    input,     \* the &str given to Board4x4::<char>::from
    result,    \* what that conversion produced
    board,     \* solve's board: &RuzzleBoard
    solveIdx,  \* solve's position in all_indices_within_bounds()
    stack,     \* the active dfs calls, outermost first
    path,      \* the shared path stack (&mut Path)
    out        \* the accumulator (&mut Vec<Path>)

vars == <<pc, root, inserted, nbW, nbH, nbIdx, nbOut, input, result,
          board, solveIdx, stack, path, out>>

----------------------------------------------------------------------------
(* Bounds of the model *)

\* longest word of the generated dictionary words
MaxWordLen == 2
\* number of distinct words a free run of add_word calls inserts
MaxAdds == 3
\* largest board width and height get_neighbouring is run on
MaxDim == 5
\* longest input string given to Board4x4::<char>::from
MaxStrLen == 18
\* number of words of a dictionary handed to solve
MaxDictWords == 2
\* width of usize in bits (Rust guarantees at least 16)
UsizeBits == 16

----------------------------------------------------------------------------
(* Generic helpers *)

RECURSIVE SumSeq(_)
SumSeq(s) == IF s = <<>> THEN 0 ELSE Head(s) + SumSeq(Tail(s))

RECURSIVE MaxSeq(_)
\* Iterator::max over usize items: None (here <<>>) on an empty iterator.
MaxSeq(s) ==
    IF s = <<>> THEN <<>>
    ELSE LET m == MaxSeq(Tail(s))
         IN IF m = <<>> \/ Head(s) > m[1] THEN <<Head(s)>> ELSE m

Range(s) == {s[i] : i \in 1..Len(s)}

\* all sequences over S of length at most n
RECURSIVE SeqsUpTo(_, _)
SeqsUpTo(S, n) ==
    IF n = 0 THEN {<<>>}
    ELSE LET shorter == SeqsUpTo(S, n - 1)
         IN shorter \cup {Append(s, c) : s \in shorter, c \in S}

IsPrefix(p, w) == Len(p) <= Len(w) /\ SubSeq(w, 1, Len(p)) = p

Prefixes(w) == {SubSeq(w, 1, k) : k \in 0..Len(w)}

----------------------------------------------------------------------------
(* src/src/trie.rs *)

new_root == [ch |-> <<>>, children |-> <<>>, is_terminal |-> FALSE]

from_char(character) ==
    [ch |-> <<character>>, children |-> <<>>, is_terminal |-> FALSE]

\* position of the first child labelled key, 0 when there is none
\* (children.iter().find(|c| c.ch == Some(key)))
FindPos(children, key) ==
    LET hits == {i \in 1..Len(children) : children[i].ch = <<key>>}
    IN IF hits = {} THEN 0 ELSE CHOOSE i \in hits : \A j \in hits : i <= j

find_in_children(node, key) ==
    LET p == FindPos(node.children, key)
    IN IF p = 0 THEN <<>> ELSE <<node.children[p]>>

\* the position mut_find_in_children borrows mutably
mut_find_in_children(node, key) == FindPos(node.children, key)

RECURSIVE node_count(_)
node_count(node) ==
    1 + SumSeq([i \in 1..Len(node.children) |-> node_count(node.children[i])])

\* mutant: counts the terminal nodes instead of the childless ones
RECURSIVE leaf_count_terminals(_)
leaf_count_terminals(node) ==
    (IF node.is_terminal THEN 1 ELSE 0)
    + SumSeq([i \in 1..Len(node.children) |->
                 leaf_count_terminals(node.children[i])])

RECURSIVE leaf_count(_)
leaf_count(node) ==
    IF node.children = <<>> THEN 1
    ELSE SumSeq([i \in 1..Len(node.children) |-> leaf_count(node.children[i])])

RECURSIVE max_depth(_)
max_depth(node) ==
    LET child_depth ==
            MaxSeq([i \in 1..Len(node.children) |-> max_depth(node.children[i])])
    IN 1 + (IF child_depth = <<>> THEN 0 ELSE child_depth[1])

\* mutant: marks every node on the way terminal, not only the last
RECURSIVE add_word_marks_prefixes(_, _)
add_word_marks_prefixes(node, word) ==
    IF word /= <<>>
    THEN LET head == Head(word)
             tail == Tail(word)
             p == mut_find_in_children(node, head)
         IN IF p /= 0
            THEN [node EXCEPT
                    !.children[p] = add_word_marks_prefixes(node.children[p], tail),
                    !.is_terminal = TRUE]
            ELSE [node EXCEPT
                    !.children = Append(@, add_word_marks_prefixes(from_char(head), tail)),
                    !.is_terminal = TRUE]
    ELSE [node EXCEPT !.is_terminal = TRUE]

RECURSIVE add_word(_, _)
add_word(node, word) ==
    IF word /= <<>>
    THEN LET head == Head(word)
             tail == Tail(word)
             p == mut_find_in_children(node, head)
         IN IF p /= 0
            THEN [node EXCEPT !.children[p] = add_word(node.children[p], tail)]
            ELSE [node EXCEPT
                    !.children = Append(@, add_word(from_char(head), tail))]
    ELSE [node EXCEPT !.is_terminal = TRUE]

RECURSIVE contains_word(_, _)
contains_word(node, word) ==
    IF word /= <<>>
    THEN LET child == find_in_children(node, Head(word))
         IN IF child /= <<>> THEN contains_word(child[1], Tail(word)) ELSE FALSE
    ELSE node.is_terminal

----------------------------------------------------------------------------
(* Trie runs: add_word calls on a fresh root.  A free run inserts up to    *)
(* MaxAdds words over {a, b}; the two scripted runs insert the words of    *)
(* the tests overlapping_words and trie_statistics in the tests' order.    *)

TrieAlphabet == {"a", "b"}

ShortWords == SeqsUpTo(TrieAlphabet, MaxWordLen)

overlapping_words ==
    << <<"h","e","l","l","o">>, <<"h","e">>, <<"h","e","l","l">> >>

trie_statistics ==
    << <<"r","u","s","t">>, <<"r","u","s","t","y">>,
       <<"t","r","i","e">>, <<"t","r","e","e">> >>

TrieTests == {overlapping_words, trie_statistics}

SolverIdle ==
    /\ board = <<>> /\ solveIdx = 0 /\ stack = <<>> /\ path = <<>> /\ out = <<>>

NeighboursIdle == nbW = 0 /\ nbH = 0 /\ nbIdx = 0 /\ nbOut = <<>>

BoardIdle == input = <<>> /\ result = <<>>

TrieInit ==
    /\ pc = "trie"
    /\ root = new_root
    /\ inserted = {}
    /\ SolverIdle /\ NeighboursIdle /\ BoardIdle

\* root.add_word(w) for a generated word
AddWord(w) ==
    /\ pc = "trie"
    /\ inserted \subseteq ShortWords
    /\ Cardinality(inserted) < MaxAdds
    /\ root' = add_word(root, w)
    /\ inserted' = inserted \cup {w}
    /\ UNCHANGED <<pc, nbW, nbH, nbIdx, nbOut, input, result,
                   board, solveIdx, stack, path, out>>

\* the next root.add_word(..) line of a test
AddTestWord(t) ==
    /\ pc = "trie"
    /\ \E k \in 0..(Len(t) - 1) :
          /\ inserted = {t[i] : i \in 1..k}
          /\ root' = add_word(root, t[k + 1])
          /\ inserted' = inserted \cup {t[k + 1]}
    /\ UNCHANGED <<pc, nbW, nbH, nbIdx, nbOut, input, result,
                   board, solveIdx, stack, path, out>>

TrieNext ==
    \/ \E w \in ShortWords : AddWord(w)
    \/ \E t \in TrieTests : AddTestWord(t)

SpecTrie == TrieInit /\ [][TrieNext]_vars

----------------------------------------------------------------------------
(* src/src/board.rs: BoardIndex<W, H> *)

UsizeModulus == 2 ^ UsizeBits

\* mutant: saturating_sub, which turns 0 - 1 into the valid coordinate 0
wrapping_sub_saturating(a, b) == IF a < b THEN 0 ELSE a - b

wrapping_sub(a, b) == (a - b) % UsizeModulus

wrapping_add(a, b) == (a + b) % UsizeModulus

\* (0..W * H).map(|n| Self { flattened: n }), in iteration order
all_indices_within_bounds(Wd, Ht) == [i \in 1..(Wd * Ht) |-> i - 1]

from_xy(Wd, x, y) == x + Wd * y

to_xy(Wd, flattened) == <<flattened % Wd, flattened \div Wd>>

\* mutant: the four orthogonal directions only
NeighbourCandidates_orthogonal(x, y) ==
    << <<x,                  wrapping_sub(y, 1)>>,
       <<wrapping_sub(x, 1), y>>,
       <<wrapping_add(x, 1), y>>,
       <<x,                  wrapping_add(y, 1)>> >>

\* the array of eight candidate coordinates, before the filter
NeighbourCandidates(x, y) ==
    << <<wrapping_sub(x, 1), wrapping_sub(y, 1)>>,
       <<x,                  wrapping_sub(y, 1)>>,
       <<wrapping_add(x, 1), wrapping_sub(y, 1)>>,
       <<wrapping_sub(x, 1), y>>,
       <<wrapping_add(x, 1), y>>,
       <<wrapping_sub(x, 1), wrapping_add(y, 1)>>,
       <<x,                  wrapping_add(y, 1)>>,
       <<wrapping_add(x, 1), wrapping_add(y, 1)>> >>

\* the items the iterator returned by get_neighbouring yields, in order
get_neighbouring(Wd, Ht, flattened) ==
    LET xy == to_xy(Wd, flattened)
        kept == SelectSeq(NeighbourCandidates(xy[1], xy[2]),
                          LAMBDA c : c[1] < Wd /\ c[2] < Ht)
    IN [i \in 1..Len(kept) |-> from_xy(Wd, kept[i][1], kept[i][2])]

----------------------------------------------------------------------------
(* src/src/board.rs: Board4x4<T> *)

\* pub type Index4x4 = BoardIndex<4, 4>
Width4x4 == 4
Height4x4 == 4
\* struct Board4x4<T>([T; 16])
BoardCells == 16

\* mutant: accepts a longer sequence and keeps its first 16 chars
try_into_truncating(chars) ==
    IF Len(chars) >= BoardCells
    THEN [ok |-> TRUE, val |-> [n \in 0..(BoardCells - 1) |-> chars[n + 1]]]
    ELSE [ok |-> FALSE, val |-> chars]

\* Vec<char> -> [char; 16]: Ok(array) when the length is 16, else Err(vec)
try_into(chars) ==
    IF Len(chars) = BoardCells
    THEN [ok |-> TRUE, val |-> [n \in 0..(BoardCells - 1) |-> chars[n + 1]]]
    ELSE [ok |-> FALSE, val |-> chars]

\* impl From<&str> for Board4x4<char>; unwrap() panics on Err
board_from_str(s) ==
    LET chars == s
        arr == try_into(chars)
    IN IF arr.ok THEN [panicked |-> FALSE, board |-> <<arr.val>>]
       ELSE [panicked |-> TRUE, board |-> <<>>]

\* impl From<u16> for Board4x4<bool>
mask_from_u16(u) ==
    [n \in 0..(BoardCells - 1) |-> ((u \div (2 ^ (15 - n))) % 2) /= 0]

\* impl Index<Index4x4>: &self.0[idx.flattened]
index_by_coordinate(b, idx) == b[idx]

\* impl Index<usize>: &self.0[idx]
index_by_flat(b, n) == b[n]

\* mutant: returns the copy without writing the cell
with_at_unwritten(self, value, idx) == self

with_at(self, value, idx) ==
    LET arr == [self EXCEPT ![idx] = value]
    IN arr

----------------------------------------------------------------------------
(* Neighbour runs: get_neighbouring on every index of every W x H board    *)
(* with 2 <= W, H <= MaxDim.                                               *)

TrieIdle == root = new_root /\ inserted = {}

NeighboursInit ==
    /\ pc = "nb_call"
    /\ nbW \in 2..MaxDim
    /\ nbH \in 2..MaxDim
    /\ nbIdx \in Range(all_indices_within_bounds(nbW, nbH))
    /\ nbOut = <<>>
    /\ TrieIdle /\ SolverIdle /\ BoardIdle

\* idx.get_neighbouring().collect()
GetNeighbouring ==
    /\ pc = "nb_call"
    /\ nbOut' = get_neighbouring(nbW, nbH, nbIdx)
    /\ pc' = "nb_done"
    /\ UNCHANGED <<root, inserted, nbW, nbH, nbIdx, input, result,
                   board, solveIdx, stack, path, out>>

NeighboursNext == GetNeighbouring

SpecNeighbours == NeighboursInit /\ [][NeighboursNext]_vars

----------------------------------------------------------------------------
(* Board runs: Board4x4::<char>::from on strings of 0..MaxStrLen chars.    *)

Letters ==
    <<"a","b","c","d","e","f","g","h","i","j","k","l","m","n","o","p">>

\* the n chars of the alphabet a..p read cyclically from its r-th letter
Rotated(n, r) == [i \in 1..n |-> Letters[((i - 1 + r) % Len(Letters)) + 1]]

BoardInputs == {Rotated(n, r) : n \in 0..MaxStrLen, r \in 0..(Len(Letters) - 1)}

BoardInit ==
    /\ pc = "board_call"
    /\ input \in BoardInputs
    /\ result = <<>>
    /\ TrieIdle /\ SolverIdle /\ NeighboursIdle

\* let board = RuzzleBoard::from(input)
BoardFrom ==
    /\ pc = "board_call"
    /\ result' = board_from_str(input)
    /\ pc' = "board_done"
    /\ UNCHANGED <<root, inserted, nbW, nbH, nbIdx, nbOut, input,
                   board, solveIdx, stack, path, out>>

BoardNext == BoardFrom

SpecBoard == BoardInit /\ [][BoardNext]_vars

----------------------------------------------------------------------------
(* src/src/main.rs: solve and dfs *)

\* path.push(idx)
PathPush(p, idx) == Append(p, idx)

\* mutant: the pop is missing
PathPop_missing(p) == p

\* path.pop(): removes the last element, if any
PathPop(p) == IF p = <<>> THEN p ELSE SubSeq(p, 1, Len(p) - 1)

\* mutant: the visited filter is missing
UnvisitedNeighbours_unfiltered(new_visited, idx) ==
    get_neighbouring(Width4x4, Height4x4, idx)

\* idx.get_neighbouring().filter(|n_idx| !new_visited[*n_idx])
UnvisitedNeighbours(new_visited, idx) ==
    SelectSeq(get_neighbouring(Width4x4, Height4x4, idx),
              LAMBDA n_idx : ~index_by_coordinate(new_visited, n_idx))

\* The frame of a dfs call that has run up to its for loop (lines 39-44):
\* its arguments, its locals new_visited and neighbours (the items the
\* iterator has still to yield), and the path stack as it was on entry.
DfsFrame(node, visited, idx, entry_path) ==
    LET new_visited == with_at(visited, TRUE, idx)
    IN [node |-> node, visited |-> visited, idx |-> idx,
        new_visited |-> new_visited,
        neighbours |-> UnvisitedNeighbours(new_visited, idx),
        entry_path |-> entry_path]

\* mutant: records the path at every node, terminal or not
Record_always(node, pushed, acc) == Append(acc, pushed)

\* if node.is_terminal { out.push(path.clone()); }
Record(node, pushed, acc) ==
    IF node.is_terminal THEN Append(acc, pushed) ELSE acc

\* A call dfs(node, board, visited, idx, path, out) from a caller whose
\* frames are callers and whose path stack is cur: the callee runs to its
\* for loop.
DfsEnter(callers, node, visited, idx, cur) ==
    LET pushed == PathPush(cur, idx)
    IN /\ stack' = Append(callers, DfsFrame(node, visited, idx, cur))
       /\ path' = pushed
       /\ out' = Record(node, pushed, out)

Top == stack[Len(stack)]

\* the caller's frames once its neighbours iterator has yielded an item
Advanced == [stack EXCEPT ![Len(stack)].neighbours = Tail(@)]

Indices4x4 == all_indices_within_bounds(Width4x4, Height4x4)

\* solve's for loop finds a root child for board[idx] and calls dfs
SolveCall ==
    /\ pc = "solve" /\ stack = <<>> /\ solveIdx < Len(Indices4x4)
    /\ LET idx == Indices4x4[solveIdx + 1]
           child == find_in_children(root, index_by_coordinate(board, idx))
       IN /\ child /= <<>>
          /\ DfsEnter(<<>>, child[1], mask_from_u16(0), idx, <<>>)
    /\ solveIdx' = solveIdx + 1
    /\ UNCHANGED <<pc, root, inserted, nbW, nbH, nbIdx, nbOut, input, result,
                   board>>

\* solve's for loop finds no root child for board[idx]
SolveSkip ==
    /\ pc = "solve" /\ stack = <<>> /\ solveIdx < Len(Indices4x4)
    /\ LET idx == Indices4x4[solveIdx + 1]
       IN find_in_children(root, index_by_coordinate(board, idx)) = <<>>
    /\ solveIdx' = solveIdx + 1
    /\ UNCHANGED <<pc, root, inserted, nbW, nbH, nbIdx, nbOut, input, result,
                   board, stack, path, out>>

\* solve's for loop is over: solve returns out
SolveReturn ==
    /\ pc = "solve" /\ stack = <<>> /\ solveIdx = Len(Indices4x4)
    /\ pc' = "done"
    /\ UNCHANGED <<root, inserted, nbW, nbH, nbIdx, nbOut, input, result,
                   board, solveIdx, stack, path, out>>

\* mutant: the recursion is given visited instead of new_visited
DfsCall_PassesOldMask ==
    /\ pc = "solve" /\ stack /= <<>> /\ Top.neighbours /= <<>>
    /\ LET n_idx == Head(Top.neighbours)
           child == find_in_children(Top.node, index_by_coordinate(board, n_idx))
       IN /\ child /= <<>>
          /\ DfsEnter(Advanced, child[1], Top.visited, n_idx, path)
    /\ UNCHANGED <<pc, root, inserted, nbW, nbH, nbIdx, nbOut, input, result,
                   board, solveIdx>>

\* dfs's for loop finds a child for board[n_idx] and recurses
DfsCall ==
    /\ pc = "solve" /\ stack /= <<>> /\ Top.neighbours /= <<>>
    /\ LET n_idx == Head(Top.neighbours)
           child == find_in_children(Top.node, index_by_coordinate(board, n_idx))
       IN /\ child /= <<>>
          /\ DfsEnter(Advanced, child[1], Top.new_visited, n_idx, path)
    /\ UNCHANGED <<pc, root, inserted, nbW, nbH, nbIdx, nbOut, input, result,
                   board, solveIdx>>

\* dfs's for loop finds no child for board[n_idx]
DfsSkip ==
    /\ pc = "solve" /\ stack /= <<>> /\ Top.neighbours /= <<>>
    /\ LET n_idx == Head(Top.neighbours)
       IN find_in_children(Top.node, index_by_coordinate(board, n_idx)) = <<>>
    /\ stack' = Advanced
    /\ UNCHANGED <<pc, root, inserted, nbW, nbH, nbIdx, nbOut, input, result,
                   board, solveIdx, path, out>>

\* dfs's for loop is over: path.pop() and return
DfsReturn ==
    /\ pc = "solve" /\ stack /= <<>> /\ Top.neighbours = <<>>
    /\ path' = PathPop(path)
    /\ stack' = SubSeq(stack, 1, Len(stack) - 1)
    /\ UNCHANGED <<pc, root, inserted, nbW, nbH, nbIdx, nbOut, input, result,
                   board, solveIdx, out>>

----------------------------------------------------------------------------
(* Solver runs: solve on a trie built by add_word from up to MaxDictWords  *)
(* words and one of three 4x4 boards.                                      *)

\* a b c d        a b c d        a a a a
\* e f g h        a b c d        a a a a
\* i j k l        a b c d        a a a a
\* m n o p        a b c d        a a a a
GridAlphabet == Rotated(BoardCells, 0)
GridColumns == [i \in 1..BoardCells |-> Letters[((i - 1) % Width4x4) + 1]]
GridAllA == [i \in 1..BoardCells |-> "a"]

Grids == {GridAlphabet, GridColumns, GridAllA}

\* a path through all 16 cells of GridAlphabet, and one letter more
Snake16 ==
    <<"a","b","c","d","h","g","f","e","i","j","k","l","p","o","n","m">>
Snake17 == Append(Snake16, "n")

SolveWords ==
    { <<>>, <<"a">>, <<"a","e">>, <<"a","c">>, <<"a","e","a">>,
      <<"a","a">>, <<"a","b","a">>, <<"a","f">>, Snake16, Snake17 }

Dictionaries == {d \in SUBSET SolveWords : Cardinality(d) <= MaxDictWords}

\* a fresh root after add_word of every word of the set
RECURSIVE BuildTrie(_)
BuildTrie(ws) ==
    IF ws = {} THEN new_root
    ELSE LET w == CHOOSE w \in ws : TRUE
         IN add_word(BuildTrie(ws \ {w}), w)

SolveInit ==
    /\ pc = "solve"
    /\ inserted \in Dictionaries
    /\ root = BuildTrie(inserted)
    /\ \E g \in Grids : board = board_from_str(g).board[1]
    /\ solveIdx = 0
    /\ stack = <<>>
    /\ path = <<>>
    /\ out = <<>>
    /\ NeighboursIdle /\ BoardIdle

SolveNext ==
    \/ SolveCall
    \/ SolveSkip
    \/ SolveReturn
    \/ DfsCall
    \/ DfsSkip
    \/ DfsReturn

SpecSolve == SolveInit /\ [][SolveNext]_vars

\* solve is one sequential call: it is never suspended while it can step
FairSolve == SpecSolve /\ WF_vars(SolveNext)

----------------------------------------------------------------------------
(* Reference notions the claims are stated in *)

NoDuplicates(s) == \A i, j \in 1..Len(s) : i /= j => s[i] /= s[j]

Abs(n) == IF n < 0 THEN -n ELSE n

\* cells c and d of the 4x4 board are 8-directional neighbours
Adjacent(c, d) ==
    /\ c /= d
    /\ Abs((c % Width4x4) - (d % Width4x4)) <= 1
    /\ Abs((c \div Width4x4) - (d \div Width4x4)) <= 1

Cells == 0..(BoardCells - 1)

\* the letters of the board along a path
Spell(p) == [i \in 1..Len(p) |-> board[p[i]]]

\* every sequence of pairwise-distinct, consecutively adjacent cells whose
\* letters spell w (for the empty word: the empty sequence)
RECURSIVE PathsSpelling(_)
PathsSpelling(w) ==
    IF w = <<>> THEN {<<>>}
    ELSE LET k == Len(w)
             shorter == PathsSpelling(SubSeq(w, 1, k - 1))
             steps == {pc_ \in shorter \X Cells :
                         /\ board[pc_[2]] = w[k]
                         /\ pc_[2] \notin Range(pc_[1])
                         /\ pc_[1] = <<>> \/ Adjacent(pc_[1][Len(pc_[1])], pc_[2])}
         IN {Append(pc_[1], pc_[2]) : pc_ \in steps}

AllWordPaths(ws) == UNION {PathsSpelling(w) : w \in ws}

Occurrences(s, x) == Cardinality({i \in 1..Len(s) : s[i] = x})

Marked(mask) == {n \in Cells : mask[n]}

SpelledBySomeResult(w) == \E i \in 1..Len(out) : Spell(out[i]) = w

----------------------------------------------------------------------------
(* C1 *)

\* C1 (as amended): when solve has returned, every NON-EMPTY dictionary
\* word is spelled by some result path iff some sequence of pairwise-distinct,
\* consecutively 8-adjacent cells spells it.
C1_WordFoundIffSimplePath ==
    pc = "done" =>
        \A w \in inserted \ {<<>>} :
            SpelledBySomeResult(w) <=> PathsSpelling(w) /= {}

\* C1 as stated: the same for every dictionary word, the empty word included.
C1_AsStated ==
    pc = "done" =>
        \A w \in inserted : SpelledBySomeResult(w) <=> PathsSpelling(w) /= {}

\* solve has returned one word's path and none for a word whose letters are
\* on the board but not adjacently
C1_Witness ==
    /\ pc = "done"
    /\ inserted = {<<"a","e">>, <<"a","c">>}
    /\ SpelledBySomeResult(<<"a","e">>)
    /\ ~SpelledBySomeResult(<<"a","c">>)
    /\ \E c, d \in Cells : board[c] = "a" /\ board[d] = "c"

----------------------------------------------------------------------------
(* C2 *)

\* C2 (as amended): when solve has returned, the result list holds no index
\* sequence twice and holds exactly the NON-EMPTY sequences of pairwise-
\* distinct, consecutively adjacent cells that spell a dictionary word, each
\* once; on the board abcdefghijklmnop with the dictionary {ae} it is the one
\* path [0, 4].
C2_EachPathExactlyOnce ==
    pc = "done" =>
        /\ NoDuplicates(out)
        /\ \A p \in AllWordPaths(inserted \ {<<>>}) : Occurrences(out, p) = 1
        /\ Range(out) \subseteq AllWordPaths(inserted \ {<<>>})
        /\ (Spell(Indices4x4) = GridAlphabet /\ inserted = {<<"a","e">>})
              => out = << <<0, 4>> >>

\* C2 as stated: every such sequence, the empty one (which spells the empty
\* word) included, is in the result list exactly once.
C2_AsStated ==
    pc = "done" =>
        /\ NoDuplicates(out)
        /\ \A p \in AllWordPaths(inserted) : Occurrences(out, p) = 1

\* two different cell sequences spelling the same word are both results
C2_Witness ==
    /\ pc = "done"
    /\ \E i, j \in 1..Len(out) : out[i] /= out[j] /\ Spell(out[i]) = Spell(out[j])

----------------------------------------------------------------------------
(* C3 *)

\* C3: at any time, no path in the result list holds a cell twice, each
\* consecutive pair of its cells are 8-directional neighbours, and it has at
\* most 16 cells.
C3_ResultPathsSimpleAdjacent ==
    \A i \in 1..Len(out) :
        /\ NoDuplicates(out[i])
        /\ \A k \in 1..(Len(out[i]) - 1) : Adjacent(out[i][k], out[i][k + 1])
        /\ Len(out[i]) <= BoardCells

\* a result path through all 16 cells, found while the trie asks for a 17th
C3_Witness ==
    /\ inserted = {Snake16, Snake17}
    /\ \E i \in 1..Len(out) : Len(out[i]) = BoardCells

----------------------------------------------------------------------------
(* C4 *)

\* the words asked of contains_word: every word over {a, b} one letter
\* longer than the generated words, and every prefix and one-letter
\* extension of the tests' words
TrieQueries ==
    SeqsUpTo(TrieAlphabet, MaxWordLen + 1)
    \cup UNION {Prefixes(t[i]) \cup {Append(t[i], c) : c \in {"o", "y", "e"}} :
                  t \in TrieTests, i \in 1..3}
    \cup UNION {Prefixes(trie_statistics[4])}

\* C4: after any sequence of add_word calls on a fresh root, contains_word(w)
\* is true iff w is one of the inserted words.
C4_ContainsIffInserted ==
    pc = "trie" =>
        \A w \in TrieQueries \cup inserted :
            contains_word(root, w) <=> w \in inserted

\* hello, he and hell inserted: the uninserted prefixes h, hel and the
\* extension helloo are absent
C4_Witness ==
    /\ pc = "trie"
    /\ inserted = Range(overlapping_words)
    /\ contains_word(root, <<"h","e">>)
    /\ ~contains_word(root, <<"h">>)
    /\ ~contains_word(root, <<"h","e","l">>)
    /\ ~contains_word(root, <<"h","e","l","l","o","o">>)

----------------------------------------------------------------------------
(* C5 *)

Directions ==
    << <<-1, -1>>, <<0, -1>>, <<1, -1>>,
       <<-1,  0>>,            <<1,  0>>,
       <<-1,  1>>, <<0,  1>>, <<1,  1>> >>

\* the in-bounds cells around (x, y) in the order NW N NE W E SW S SE
ExpectedNeighbours(Wd, Ht, x, y) ==
    LET inside == SelectSeq(Directions,
                      LAMBDA d : /\ x + d[1] >= 0 /\ x + d[1] < Wd
                                 /\ y + d[2] >= 0 /\ y + d[2] < Ht)
    IN [i \in 1..Len(inside) |-> (x + inside[i][1]) + Wd * (y + inside[i][2])]

OnBorderX(Wd, x) == x = 0 \/ x = Wd - 1
OnBorderY(Ht, y) == y = 0 \/ y = Ht - 1

\* C5: get_neighbouring yields exactly the in-bounds cells around the index in
\* the order NW N NE W E SW S SE: 3 for a corner, 5 for an edge, 8 for an
\* interior cell, all distinct, none the origin, all within bounds.
C5_NeighboursExact ==
    pc = "nb_done" =>
        LET x == nbIdx % nbW
            y == nbIdx \div nbW
        IN /\ nbOut = ExpectedNeighbours(nbW, nbH, x, y)
           /\ Len(nbOut) = (IF OnBorderX(nbW, x) /\ OnBorderY(nbH, y) THEN 3
                            ELSE IF OnBorderX(nbW, x) \/ OnBorderY(nbH, y) THEN 5
                            ELSE 8)
           /\ NoDuplicates(nbOut)
           /\ \A i \in 1..Len(nbOut) :
                 nbOut[i] /= nbIdx /\ nbOut[i] >= 0 /\ nbOut[i] < nbW * nbH

\* the top-left corner of a 3x3 board (both coordinates 0): E, S, SE only
C5_Witness ==
    /\ pc = "nb_done"
    /\ nbW = 3 /\ nbH = 3 /\ nbIdx = 0
    /\ nbOut = <<1, 3, 4>>

----------------------------------------------------------------------------
(* C6 *)

NonEmptyPrefixes(ws) == UNION {Prefixes(w) \ {<<>>} : w \in ws}

LongestLen(ws) ==
    IF ws = {} THEN 0
    ELSE CHOOSE n \in {Len(w) : w \in ws} : \A w \in ws : Len(w) <= n

MaximalWords(ws) ==
    {w \in ws : ~\E v \in ws : v /= w /\ IsPrefix(w, v)}

\* C6: after any sequence of add_word calls on a fresh root, node_count is 1
\* plus the number of distinct non-empty prefixes of inserted words,
\* leaf_count is 1 for an empty trie and otherwise the number of inserted
\* words that are no proper prefix of another inserted word, max_depth is 1
\* plus the length of the longest inserted word; an empty root gives 1/1/1
\* and {rust, rusty, trie, tree} gives 12/3/6.
C6_StatisticsAgree ==
    pc = "trie" =>
        /\ node_count(root) = 1 + Cardinality(NonEmptyPrefixes(inserted))
        /\ leaf_count(root) =
              (IF inserted = {} THEN 1 ELSE Cardinality(MaximalWords(inserted)))
        /\ max_depth(root) = 1 + LongestLen(inserted)
        /\ inserted = {} =>
              node_count(root) = 1 /\ leaf_count(root) = 1 /\ max_depth(root) = 1
        /\ inserted = Range(trie_statistics) =>
              node_count(root) = 12 /\ leaf_count(root) = 3 /\ max_depth(root) = 6

\* the trie of the test trie_statistics, where rust is a proper prefix of rusty
C6_Witness ==
    /\ pc = "trie"
    /\ inserted = Range(trie_statistics)
    /\ node_count(root) = 12

----------------------------------------------------------------------------
(* C7 *)

\* C7: the conversion of a string of other than 16 chars fails (it panics)
\* and produces no board; with 16 chars it succeeds and the n-th char is the
\* cell at flat index n, under flat and under coordinate indexing alike.
C7_BoardFromStr ==
    pc = "board_done" =>
        /\ Len(input) /= Width4x4 * Height4x4 =>
              result.panicked /\ result.board = <<>>
        /\ Len(input) = Width4x4 * Height4x4 =>
              /\ ~result.panicked
              /\ Len(result.board) = 1
              /\ DOMAIN result.board[1] = 0..15
              /\ \A n \in 0..15 : index_by_flat(result.board[1], n) = input[n + 1]
              /\ \A x, y \in 0..3 :
                    index_by_coordinate(result.board[1], from_xy(Width4x4, x, y))
                        = input[(x + 4 * y) + 1]

\* a string of 17 chars was refused
C7_Witness ==
    /\ pc = "board_done"
    /\ Len(input) = BoardCells + 1
    /\ result.panicked

----------------------------------------------------------------------------
(* C8 *)

\* the path stack is the cells of the active dfs calls, in entry order
PathIsActiveChain == path = [k \in 1..Len(stack) |-> stack[k].idx]

\* a returning dfs call leaves the path stack as it found it
ReturnRestoresPath == Len(stack') < Len(stack) => path' = Top.entry_path

\* the accumulator only grows at its end: recorded paths stay as recorded
OutAppendOnly == IsPrefix(out, out')

\* C8: at every point of solve the path stack is exactly the cells of the
\* active dfs calls in entry order (so it is empty between starting cells);
\* every dfs call returns with the path stack as it was on entry; a recorded
\* path is never altered afterwards.
C8_PathStackDiscipline ==
    /\ [](PathIsActiveChain /\ (stack = <<>> => path = <<>>))
    /\ [][ReturnRestoresPath /\ OutAppendOnly]_vars

\* a sibling branch is running after a recorded branch was popped
C8_Witness ==
    /\ Len(stack) >= 2
    /\ out /= <<>>
    /\ ~IsPrefix(out[Len(out)], path)
    /\ ~IsPrefix(path, out[Len(out)])
    /\ path[1] = out[Len(out)][1]

----------------------------------------------------------------------------
(* C9 *)

\* C9: in every active dfs call, new_visited equals visited except that idx
\* is marked, visited is still the mask the caller passed (the caller's
\* new_visited, or the empty mask from solve), and the cells marked in
\* new_visited are exactly the cells on the path stack up to that call.
C9_VisitedIsPath ==
    \A k \in 1..Len(stack) :
        LET f == stack[k]
        IN /\ f.new_visited[f.idx]
           /\ \A n \in Cells \ {f.idx} : f.new_visited[n] = f.visited[n]
           /\ f.visited = (IF k = 1 THEN [n \in Cells |-> FALSE]
                           ELSE stack[k - 1].new_visited)
           /\ Marked(f.new_visited) = {path[j] : j \in 1..k}
           /\ Len(path) >= k

\* a cell marked by an earlier sibling branch (it is on a recorded path from
\* the same parent) is unmarked in the branch now running
C9_Witness ==
    /\ Len(stack) >= 2
    /\ \E i \in 1..Len(out) :
          /\ Len(out[i]) = Len(stack)
          /\ SubSeq(out[i], 1, Len(stack) - 1) = SubSeq(path, 1, Len(stack) - 1)
          /\ out[i][Len(stack)] /= Top.idx
          /\ ~Top.new_visited[out[i][Len(stack)]]

----------------------------------------------------------------------------
(* C10 *)

\* C10: the k-th active dfs call has exactly k cells marked (one more per
\* call along a branch), the recursion depth and the path stack never exceed
\* 16, and solve eventually returns.
C10_SolveTerminates ==
    /\ [](/\ \A k \in 1..Len(stack) :
                Cardinality(Marked(stack[k].new_visited)) = k
          /\ Len(stack) <= Width4x4 * Height4x4
          /\ Len(path) <= Width4x4 * Height4x4)
    /\ <>(pc = "done")

\* a branch 16 calls deep whose trie node still has a child: every cell is
\* visited, so no neighbour is left to try
C10_Witness ==
    /\ Len(stack) = BoardCells
    /\ Top.node.children /= <<>>
    /\ Top.neighbours = <<>>

====
